---- MODULE Spec2Model ----
(* Order lifecycle of the starter-pack product: StarterPackService and the   *)
(* starter_pack_orders table it reads and writes.                            *)
EXTENDS Integers, Sequences, FiniteSets, TLC

(* ---------------------------------------------------------------- bounds *)
MaxOrders == 1
MaxTime == 2

(* ------------------------------------------------------ program constants *)
STARTER_PACK_BASE_COST == 0
TABLET_COST == 499

(* ------------------------------------------------------------ value sets *)
statuses == <<"pending", "received", "preparing", "configuring", "out_for_delivery", "delivered">>
OrderStatus == {statuses[i] : i \in 1..Len(statuses)}
PaymentStatus == {"pending", "completed", "failed"}
SettlementOutcome == {"completed", "failed"}

NoTime == -1
NoRef == "null"
Users == {"u1", "u2"}
(* two DeliveryAddress values that differ in every field *)
addrA == [addressLine1 |-> "Villa 1", addressLine2 |-> "", city |-> "Dubai",
          emirate |-> "Dubai", contactNumber |-> "+971501234567"]
addrB == [addressLine1 |-> "Flat 2", addressLine2 |-> "Tower B", city |-> "Al Ain",
          emirate |-> "Abu Dhabi", contactNumber |-> "0521234567"]
Addresses == {addrA, addrB}
PaymentIntents == {"pi_123", "free-order"}
ProofUrls == {"proof1", "proof2"}
Time == 0..MaxTime

MsPerHour == 60 * 60 * 1000

(* the object {} of stage timestamps, holding no entry at all *)
NoTimestamps == [s \in OrderStatus |-> NoTime]

(* JSON.stringify(object): a string, the JSON text of the object *)
JSONstringify(object) == [type |-> "string", json |-> object]

(* value?.[key] in the pages: the entry of an object, undefined for a       *)
(* string, which has no property named after a stage                        *)
GetProperty(value, key) ==
  IF value.type = "object" THEN value.props[key] ELSE NoTime

(* the stage timestamps written in the text that the status_timestamps     *)
(* column of row o holds                                                    *)
StatusTimestamps(o) == o.status_timestamps.json

VARIABLES orders, now, last, view, sessions, page, modal
vars == <<orders, now, last, view, sessions, page, modal>>

(* what only the reading calls, the dashboard sessions and the customer's   *)
(* page and address form change                                             *)
aux == <<view, sessions, page, modal>>

(* ------------------------------------------------------- pure functions *)
(* getStatusIndex that counts positions from 1 *)
getStatusIndex_OneBased(status) ==
  IF status \in OrderStatus
  THEN CHOOSE i \in 1..Len(statuses) : statuses[i] = status
  ELSE -1

(* statuses.indexOf(status), 0-based, -1 when absent *)
getStatusIndex(status) ==
  IF status \in OrderStatus
  THEN (CHOOSE i \in 1..Len(statuses) : statuses[i] = status) - 1
  ELSE -1

calculateTotalCost(includesTablet) ==
  STARTER_PACK_BASE_COST + (IF includesTablet THEN TABLET_COST ELSE 0)

OrderIds == 1..Len(orders)
Exists(orderId) == orderId \in OrderIds

(* the call just made: operation, target row, argument, outcome *)
Call(op, id, arg, result) == [op |-> op, id |-> id, arg |-> arg, result |-> result]

(* the last reading call: operation, arguments, value returned *)
Read(op, args, result) == [op |-> op, args |-> args, result |-> result]
NoView == Read("none", <<>>, "none")

(* the two dashboard sessions; each holds the order it has selected *)
Sessions == {"s1", "s2"}
(* selectedOrder = null *)
NoSelection == [id |-> 0, order_status |-> "none"]
NoSession == [selectedOrder |-> NoSelection, updating |-> FALSE]

(* a text typed into a field of the address form, as its characters *)
NoText == <<>>

(* useState of AddressCollectionModal: step 1, every field '', no error;   *)
(* submitted is the address last handed to onSubmit                        *)
NoAddress == [addressLine1 |-> NoText, addressLine2 |-> NoText, city |-> NoText,
              emirate |-> "", contactNumber |-> NoText]
NoModal == [isOpen |-> FALSE, step |-> 1, address |-> NoAddress, errors |-> {},
            submitted |-> NoAddress]

(* pendingAddress = null *)
NoPendingAddress == [addressLine1 |-> "", addressLine2 |-> "", city |-> "",
                     emirate |-> "", contactNumber |-> ""]

(* the invocations of processOrder that can be in flight together *)
MaxRuns == 2
RunIds == 1..MaxRuns
NoRun == [pc |-> "done", includesTablet |-> FALSE, address |-> NoPendingAddress,
          orderId |-> 0, purchase |-> 0]

(* useState of the customer's page: nothing chosen, no call in flight;     *)
(* hasActiveOrder is what activeOrder is for the orders last loaded;       *)
(* purchase numbers the times the order form was opened and createdFor     *)
(* holds, for every row, the purchase whose processOrder inserted it       *)
NoPage == [includesTablet |-> FALSE, showAddressModal |-> FALSE,
           pendingAddress |-> NoPendingAddress, isProcessing |-> FALSE,
           error |-> FALSE, hasActiveOrder |-> FALSE,
           runs |-> [r \in RunIds |-> NoRun],
           purchase |-> 0, createdFor |-> <<>>]

(* ------------------------------------------------------------------ Init *)
Init ==
  /\ orders = <<>>
  /\ now = 0
  /\ last = Call("none", 0, "none", "ok")
  /\ view = NoView
  /\ sessions = [s \in Sessions |-> NoSession]
  /\ page = NoPage
  /\ modal = NoModal

(* --------------------------------------------------------------- actions *)
(* NewOrder that stores the two address lines in each other's column *)
NewOrder_SwapsAddressLines(userId, includesTablet, deliveryAddress) ==
  LET tabletCost == IF includesTablet THEN TABLET_COST ELSE 0
      totalCost == STARTER_PACK_BASE_COST + tabletCost
  IN [ user_id |-> userId,
       includes_tablet |-> includesTablet,
       tablet_cost |-> tabletCost,
       total_cost |-> totalCost,
       order_status |-> "received",
       payment_status |-> "completed",
       stripe_payment_intent_id |-> NoRef,
       estimated_delivery |-> NoTime,
       delivered_at |-> NoTime,
       delivery_address_line1 |-> deliveryAddress.addressLine2,
       delivery_address_line2 |-> deliveryAddress.addressLine1,
       delivery_city |-> deliveryAddress.city,
       delivery_emirate |-> deliveryAddress.emirate,
       delivery_contact_number |-> deliveryAddress.contactNumber,
       proof_of_delivery_url |-> NoRef,
       status_timestamps |-> JSONstringify([NoTimestamps EXCEPT !["received"] = now]),
       created_at |-> now ]

(* the row inserted by createOrder; created_at is the table's default now() *)
NewOrder(userId, includesTablet, deliveryAddress) ==
  LET tabletCost == IF includesTablet THEN TABLET_COST ELSE 0
      totalCost == STARTER_PACK_BASE_COST + tabletCost
  IN [ user_id |-> userId,
       includes_tablet |-> includesTablet,
       tablet_cost |-> tabletCost,
       total_cost |-> totalCost,
       order_status |-> "received",
       payment_status |-> "completed",
       stripe_payment_intent_id |-> NoRef,
       estimated_delivery |-> NoTime,
       delivered_at |-> NoTime,
       delivery_address_line1 |-> deliveryAddress.addressLine1,
       delivery_address_line2 |-> deliveryAddress.addressLine2,
       delivery_city |-> deliveryAddress.city,
       delivery_emirate |-> deliveryAddress.emirate,
       delivery_contact_number |-> deliveryAddress.contactNumber,
       proof_of_delivery_url |-> NoRef,
       status_timestamps |-> JSONstringify([NoTimestamps EXCEPT !["received"] = now]),
       created_at |-> now ]

(* createOrder on a table that holds at most cap rows *)
createOrderUpTo(cap, userId, includesTablet, deliveryAddress) ==
  /\ Len(orders) < cap
  /\ \/ /\ orders' = Append(orders, NewOrder(userId, includesTablet, deliveryAddress))
        /\ last' = Call("createOrder", Len(orders) + 1, deliveryAddress, "ok")
     \/ /\ orders' = orders
        /\ last' = Call("createOrder", 0, deliveryAddress, "error")
  /\ UNCHANGED now

createOrder(userId, includesTablet, deliveryAddress) ==
  createOrderUpTo(MaxOrders, userId, includesTablet, deliveryAddress)

(* PaymentUpdate that also rewrites status_timestamps the way the insert does *)
PaymentUpdate_RewritesTimestamps(o, paymentIntentId, status) ==
  LET base == [o EXCEPT !.payment_status = status,
                        !.stripe_payment_intent_id = paymentIntentId]
  IN IF status = "completed"
     THEN [base EXCEPT !.order_status = "received",
                       !.status_timestamps =
                          JSONstringify([NoTimestamps EXCEPT !["received"] = now])]
     ELSE base

(* the columns updateOrderPaymentStatus writes to the row *)
PaymentUpdate(o, paymentIntentId, status) ==
  LET base == [o EXCEPT !.payment_status = status,
                        !.stripe_payment_intent_id = paymentIntentId]
  IN IF status = "completed"
     THEN [base EXCEPT !.order_status = "received"]
     ELSE base

updateOrderPaymentStatus(orderId, paymentIntentId, status) ==
  /\ \/ /\ orders' = IF Exists(orderId)
                     THEN [orders EXCEPT ![orderId] = PaymentUpdate(@, paymentIntentId, status)]
                     ELSE orders
        /\ last' = Call("updateOrderPaymentStatus", orderId, status, "ok")
     \/ /\ orders' = orders
        /\ last' = Call("updateOrderPaymentStatus", orderId, status, "error")
  /\ UNCHANGED now

(* StatusUpdate that also recomputes the cost columns as for no device *)
StatusUpdate_RecomputesCost(o, status) ==
  LET base == [o EXCEPT !.order_status = status,
                        !.tablet_cost = 0,
                        !.total_cost = STARTER_PACK_BASE_COST]
  IN IF status = "delivered"
     THEN [base EXCEPT !.delivered_at = now]
     ELSE base

(* the columns updateOrderStatus writes to the row *)
StatusUpdate(o, status) ==
  LET base == [o EXCEPT !.order_status = status]
  IN IF status = "delivered"
     THEN [base EXCEPT !.delivered_at = now]
     ELSE base

updateOrderStatus(orderId, status) ==
  /\ \/ /\ orders' = IF Exists(orderId)
                     THEN [orders EXCEPT ![orderId] = StatusUpdate(@, status)]
                     ELSE orders
        /\ last' = Call("updateOrderStatus", orderId, status, "ok")
     \/ /\ orders' = orders
        /\ last' = Call("updateOrderStatus", orderId, status, "error")
  /\ UNCHANGED now

(* ProofUpdate that keeps a proof reference already stored *)
ProofUpdate_KeepsFirst(o, proofUrl) ==
  IF o.proof_of_delivery_url # NoRef
  THEN o
  ELSE [o EXCEPT !.proof_of_delivery_url = proofUrl]

(* the column updateProofOfDelivery writes to the row *)
ProofUpdate(o, proofUrl) == [o EXCEPT !.proof_of_delivery_url = proofUrl]

updateProofOfDelivery(orderId, proofUrl) ==
  /\ \/ /\ orders' = IF Exists(orderId)
                     THEN [orders EXCEPT ![orderId] = ProofUpdate(@, proofUrl)]
                     ELSE orders
        /\ last' = Call("updateProofOfDelivery", orderId, proofUrl, "ok")
     \/ /\ orders' = orders
        /\ last' = Call("updateProofOfDelivery", orderId, proofUrl, "error")
  /\ UNCHANGED now

(* the wall clock read by new Date() and by the table's now() *)
Tick ==
  /\ now < MaxTime
  /\ now' = now + 1
  /\ UNCHANGED <<orders, last>>

DoCreateOrder ==
  \E u \in Users, t \in BOOLEAN, a \in Addresses : createOrder(u, t, a)

DoUpdateOrderPaymentStatus ==
  \E id \in 1..MaxOrders, p \in PaymentIntents, s \in SettlementOutcome :
    updateOrderPaymentStatus(id, p, s)

DoUpdateOrderStatus ==
  \E id \in 1..MaxOrders, s \in OrderStatus : updateOrderStatus(id, s)

DoUpdateProofOfDelivery ==
  \E id \in 1..MaxOrders, p \in ProofUrls : updateProofOfDelivery(id, p)

Next ==
  \/ DoCreateOrder /\ UNCHANGED aux
  \/ DoUpdateOrderPaymentStatus /\ UNCHANGED aux
  \/ DoUpdateOrderStatus /\ UNCHANGED aux
  \/ DoUpdateProofOfDelivery /\ UNCHANGED aux
  \/ Tick /\ UNCHANGED aux

Spec == Init /\ [][Next]_vars

(* ------------------------------------------------- customer order listing *)
MaxListedOrders == 2

(* .order('created_at', { ascending: false }); rows of one instant come     *)
(* newest row first                                                         *)
RECURSIVE OrderByCreatedDesc(_)
OrderByCreatedDesc(ids) ==
  IF ids = {}
  THEN <<>>
  ELSE LET first == CHOOSE i \in ids :
                      \A j \in ids :
                        \/ orders[i].created_at > orders[j].created_at
                        \/ orders[i].created_at = orders[j].created_at /\ i >= j
       IN <<first>> \o OrderByCreatedDesc(ids \ {first})

(* getUserOrders that forgets the payment_status filter *)
getUserOrders_NoPaymentFilter(userId) ==
  LET byUser == {id \in OrderIds : orders[id].user_id = userId}
  IN OrderByCreatedDesc(byUser)

(* the ids of the rows getUserOrders returns, in the order returned *)
getUserOrders(userId) ==
  LET byUser == {id \in OrderIds : orders[id].user_id = userId}
      completed == {id \in byUser : orders[id].payment_status = "completed"}
  IN OrderByCreatedDesc(completed)

(* loadOrders: the page keeps the rows returned; when the query throws, the *)
(* page keeps what it had                                                   *)
GetUserOrders(userId) ==
  /\ view' = Read("getUserOrders", <<userId>>, getUserOrders(userId))
  /\ UNCHANGED <<orders, now, last, sessions, page, modal>>

(* the ordering flow of a device order and the customer's page reloading *)
ListingCreateOrder ==
  \E u \in Users : createOrderUpTo(MaxListedOrders, u, TRUE, addrA)

ListingSettle ==
  \E id \in 1..MaxListedOrders, s \in SettlementOutcome :
    updateOrderPaymentStatus(id, "pi_123", s)

ListingLoadOrders == \E u \in Users : GetUserOrders(u)

NextListing ==
  \/ ListingCreateOrder /\ UNCHANGED aux
  \/ ListingSettle /\ UNCHANGED aux
  \/ Tick /\ UNCHANGED aux
  \/ ListingLoadOrders

SpecListing == Init /\ [][NextListing]_vars

(* ------------------------------------------------ delivery timing, delays *)
(* Instants are milliseconds, the resolution of Date; an ISO string is      *)
(* represented by the instant it denotes.                                   *)
MaxHours == 4
Instants == {h * MsPerHour + d : h \in 0..MaxHours, d \in {0, 1, MsPerHour - 1}}

(* calculateEstimatedDelivery with a factor of 60 dropped from the window *)
calculateEstimatedDelivery_NineMinutes(orderDate) ==
  LET orderTime == orderDate
  IN orderTime + 9 * 60 * 1000

calculateEstimatedDelivery(orderDate) ==
  LET orderTime == orderDate
  IN orderTime + 9 * 60 * 60 * 1000

(* isDelayed that exempts only delivered orders *)
isDelayed_OnlyDelivered(orderDate, currentStatus, estimatedDelivery) ==
  IF currentStatus = "delivered"
  THEN FALSE
  ELSE LET eta == estimatedDelivery
       IN now > eta

(* isDelayed that counts the estimated instant itself as late *)
isDelayed_NotStrict(orderDate, currentStatus, estimatedDelivery) ==
  IF currentStatus = "delivered" \/ currentStatus = "out_for_delivery"
  THEN FALSE
  ELSE LET eta == estimatedDelivery
       IN now >= eta

(* new Date() is the clock, now *)
isDelayed(orderDate, currentStatus, estimatedDelivery) ==
  IF currentStatus = "delivered" \/ currentStatus = "out_for_delivery"
  THEN FALSE
  ELSE LET eta == estimatedDelivery
       IN now > eta

(* the three texts of getDelayMessage *)
SlightDelayMessage ==
  "Your order is slightly delayed. We apologize for the inconvenience."

HoursDelayMessage(delayHours) ==
  "Your order is delayed by approximately " \o ToString(delayHours) \o " hour"
    \o (IF delayHours > 1 THEN "s" ELSE "")
    \o ". Our team is working to get it to you as soon as possible."

SupportDelayMessage ==
  "We sincerely apologize for the delay. Your order is taking longer than expected. Please contact support for more information."

(* getDelayMessage whose middle tier also takes the third hour *)
getDelayMessage_ThreeHoursInclusive(estimatedDelivery) ==
  LET eta == estimatedDelivery
      delayHours == (now - eta) \div (1000 * 60 * 60)
  IN IF delayHours < 1
     THEN SlightDelayMessage
     ELSE IF delayHours <= 3
          THEN HoursDelayMessage(delayHours)
          ELSE SupportDelayMessage

(* new Date() is the clock, now; Math.floor rounds towards minus infinity, *)
(* as \div does                                                            *)
getDelayMessage(estimatedDelivery) ==
  LET eta == estimatedDelivery
      delayHours == (now - eta) \div (1000 * 60 * 60)
  IN IF delayHours < 1
     THEN SlightDelayMessage
     ELSE IF delayHours < 3
          THEN HoursDelayMessage(delayHours)
          ELSE SupportDelayMessage

CalculateEstimatedDelivery(orderDate) ==
  /\ view' = Read("calculateEstimatedDelivery", <<orderDate>>,
                  calculateEstimatedDelivery(orderDate))
  /\ UNCHANGED <<orders, now, last, sessions, page, modal>>

IsDelayed(orderDate, currentStatus, estimatedDelivery) ==
  /\ view' = Read("isDelayed", <<orderDate, currentStatus, estimatedDelivery>>,
                  isDelayed(orderDate, currentStatus, estimatedDelivery))
  /\ UNCHANGED <<orders, now, last, sessions, page, modal>>

GetDelayMessage(estimatedDelivery) ==
  /\ view' = Read("getDelayMessage", <<estimatedDelivery>>,
                  getDelayMessage(estimatedDelivery))
  /\ UNCHANGED <<orders, now, last, sessions, page, modal>>

(* the tracking view asks for the position of the order's stage; a value   *)
(* outside the list of stages is the case indexOf answers with -1          *)
StatusNames == OrderStatus \cup {"cancelled"}

GetStatusIndex(status) ==
  /\ view' = Read("getStatusIndex", <<status>>, getStatusIndex(status))
  /\ UNCHANGED <<orders, now, last, sessions, page, modal>>

(* the clock between two renders of the tracking view *)
ClockAdvance ==
  /\ \E t \in Instants : t > now /\ now' = t
  /\ UNCHANGED <<orders, last, view, sessions, page, modal>>

InitTiming ==
  /\ orders = <<>>
  /\ now \in Instants
  /\ last = Call("none", 0, "none", "ok")
  /\ view = NoView
  /\ sessions = [s \in Sessions |-> NoSession]
  /\ page = NoPage
  /\ modal = NoModal

NextTiming ==
  \/ \E d \in Instants : CalculateEstimatedDelivery(d)
  \/ \E d \in {0, MsPerHour}, s \in OrderStatus, e \in Instants : IsDelayed(d, s, e)
  \/ \E e \in Instants : GetDelayMessage(e)
  \/ \E s \in StatusNames : GetStatusIndex(s)
  \/ ClockAdvance

SpecTiming == InitTiming /\ [][NextTiming]_vars

(* ------------------------------------------------------ operator dashboard *)
(* the stage buttons of the dashboard *)
dashboardStatuses == {"received", "preparing", "configuring", "out_for_delivery", "delivered"}

(* the part of the selected row that decides the buttons *)
Snapshot(id) == [id |-> id, order_status |-> orders[id].order_status]

(* the disabled attribute of the button of stage status *)
ButtonDisabled(session, status) ==
  LET currentIndex == getStatusIndex(session.selectedOrder.order_status)
      statusIndex == getStatusIndex(status)
      isCompleted == statusIndex < currentIndex
      isCurrent == status = session.selectedOrder.order_status
      isNext == statusIndex = currentIndex + 1
      canUpdate == isNext \/ isCurrent
  IN session.updating \/ (~canUpdate /\ ~isCompleted)

(* an operator opens an order from the list the dashboard loaded *)
SelectOrder(s, id) ==
  /\ Exists(id)
  /\ ~sessions[s].updating
  /\ sessions' = [sessions EXCEPT ![s].selectedOrder = Snapshot(id)]
  /\ UNCHANGED <<orders, now, last, view, page, modal>>

(* handleStatusUpdate up to the answer of the store: a rejected update ends *)
(* the handler with the selection as it was                                 *)
ClickStatus(s, status) ==
  /\ sessions[s].selectedOrder # NoSelection
  /\ ~ButtonDisabled(sessions[s], status)
  /\ updateOrderStatus(sessions[s].selectedOrder.id, status)
  /\ sessions' = [sessions EXCEPT ![s].updating = (last'.result = "ok")]
  /\ UNCHANGED <<view, page, modal>>

(* handleStatusUpdate after the update: the order is fetched again *)
FinishStatusUpdate(s) ==
  /\ sessions[s].updating
  /\ sessions' = [sessions EXCEPT ![s] = [selectedOrder |-> Snapshot(@.selectedOrder.id),
                                          updating |-> FALSE]]
  /\ UNCHANGED <<orders, now, last, view, page, modal>>

DashboardCreateOrder == createOrder("u1", FALSE, addrA)

NextDashboard ==
  \/ DashboardCreateOrder /\ UNCHANGED aux
  \/ Tick /\ UNCHANGED aux
  \/ \E s \in Sessions, id \in 1..MaxOrders : SelectOrder(s, id)
  \/ \E s \in Sessions, status \in dashboardStatuses : ClickStatus(s, status)
  \/ \E s \in Sessions : FinishStatusUpdate(s)

SpecDashboard == Init /\ [][NextDashboard]_vars

(* ------------------------------------------ saving and loading an order *)
(* getOrderById: select('*') answers with the columns as they are stored,  *)
(* timestamps at the millisecond they were written with                    *)
getOrderById(orderId) == orders[orderId]

GetOrderById(orderId) ==
  /\ Exists(orderId)
  /\ view' = Read("getOrderById", <<orderId>>, getOrderById(orderId))
  /\ UNCHANGED <<orders, now, last, sessions, page, modal>>

TrackingCreateOrder == \E t \in BOOLEAN : createOrder("u1", t, addrA)

TrackingSettle ==
  \E s \in SettlementOutcome : updateOrderPaymentStatus(1, "pi_123", s)

TrackingAdvance ==
  \E s \in {"preparing", "delivered"} : updateOrderStatus(1, s)

NextTracking ==
  \/ TrackingCreateOrder /\ UNCHANGED aux
  \/ TrackingSettle /\ UNCHANGED aux
  \/ TrackingAdvance /\ UNCHANGED aux
  \/ Tick /\ UNCHANGED aux
  \/ \E id \in 1..MaxOrders : GetOrderById(id)

SpecTracking == Init /\ [][NextTracking]_vars

(* ---------------------------------------------- customer ordering flow *)
MaxFlowOrders == 2
MaxPurchases == 2

(* orders.find(payment completed and not delivered) over getUserOrders *)
ActiveOrderIn(ids) ==
  \E i \in 1..Len(ids) :
    /\ orders[ids[i]].payment_status = "completed"
    /\ orders[ids[i]].order_status # "delivered"

(* the page mounts, and every 30 s: loadOrders *)
LoadOrders ==
  /\ page' = [page EXCEPT !.hasActiveOrder = ActiveOrderIn(getUserOrders("u1"))]
  /\ UNCHANGED <<orders, now, last, view, sessions, modal>>

(* the Add Tablet checkbox of the order form *)
SetIncludesTablet(checked) ==
  /\ page.pendingAddress = NoPendingAddress
  /\ ~page.hasActiveOrder
  /\ page' = [page EXCEPT !.includesTablet = checked]
  /\ UNCHANGED <<orders, now, last, view, sessions, modal>>

(* the Place Order button *)
handlePlaceOrder ==
  /\ page.pendingAddress = NoPendingAddress
  /\ ~page.hasActiveOrder
  /\ ~page.isProcessing
  /\ page.purchase < MaxPurchases
  /\ page' = [page EXCEPT !.showAddressModal = TRUE,
                          !.error = FALSE,
                          !.purchase = page.purchase + 1]
  /\ UNCHANGED <<orders, now, last, view, sessions, modal>>

(* onClose of the address form *)
CloseAddressModal ==
  /\ page.showAddressModal
  /\ ~page.isProcessing
  /\ page' = [page EXCEPT !.showAddressModal = FALSE]
  /\ UNCHANGED <<orders, now, last, view, sessions, modal>>

(* processOrder up to its first await: the createOrder request is sent *)
EnterProcessOrder(pg, address) ==
  LET r == CHOOSE i \in RunIds :
             /\ pg.runs[i] = NoRun
             /\ \A j \in RunIds : pg.runs[j] = NoRun => i <= j
  IN [pg EXCEPT !.isProcessing = TRUE,
                !.error = FALSE,
                !.runs[r] = [pc |-> "createOrder",
                             includesTablet |-> pg.includesTablet,
                             address |-> address,
                             orderId |-> 0,
                             purchase |-> pg.purchase]]

(* the catch and finally of processOrder *)
Thrown(pg, r) ==
  [pg EXCEPT !.error = TRUE, !.isProcessing = FALSE, !.runs[r] = NoRun]

(* onSubmit of the address form, whose Confirm button stays enabled while  *)
(* the form is shown                                                       *)
handleAddressSubmit(address) ==
  /\ page.showAddressModal
  /\ IF page.includesTablet
     THEN page' = [page EXCEPT !.pendingAddress = address,
                               !.showAddressModal = FALSE]
     ELSE /\ \E r \in RunIds : page.runs[r] = NoRun
          /\ page' = EnterProcessOrder(page, address)
  /\ UNCHANGED <<orders, now, last, view, sessions, modal>>

(* the Pay button of the payment panel *)
ClickPay ==
  /\ page.pendingAddress # NoPendingAddress
  /\ page.includesTablet
  /\ ~page.isProcessing
  /\ \E r \in RunIds : page.runs[r] = NoRun
  /\ page' = EnterProcessOrder(page, page.pendingAddress)
  /\ UNCHANGED <<orders, now, last, view, sessions, modal>>

(* the X button of the payment panel *)
CancelPayment ==
  /\ page.pendingAddress # NoPendingAddress
  /\ page.includesTablet
  /\ page' = [page EXCEPT !.pendingAddress = NoPendingAddress,
                          !.includesTablet = FALSE]
  /\ UNCHANGED <<orders, now, last, view, sessions, modal>>

(* processOrder resumes with the answer of createOrder *)
ProcessOrderCreated(r) ==
  LET run == page.runs[r]
  IN /\ run.pc = "createOrder"
     /\ createOrderUpTo(MaxFlowOrders, "u1", run.includesTablet, run.address)
     /\ page' =
          IF last'.result = "ok"
          THEN [page EXCEPT !.createdFor = Append(page.createdFor, run.purchase),
                            !.runs[r].orderId = last'.id,
                            !.runs[r].pc = IF run.includesTablet
                                           THEN "createPayment"
                                           ELSE "loadOrders"]
          ELSE Thrown(page, r)
     /\ UNCHANGED <<view, sessions, modal>>

(* the answer of the create-starterpack-payment function *)
ProcessOrderPaymentCreated(r, ok) ==
  /\ page.runs[r].pc = "createPayment"
  /\ page' = IF ok
             THEN [page EXCEPT !.runs[r].pc = "confirmCardPayment"]
             ELSE Thrown(page, r)
  /\ UNCHANGED <<orders, now, last, view, sessions, modal>>

(* the answer of stripe.confirmCardPayment; stripeError is a failure *)
ProcessOrderCardConfirmed(r, stripeError) ==
  /\ page.runs[r].pc = "confirmCardPayment"
  /\ page' = IF stripeError
             THEN Thrown(page, r)
             ELSE [page EXCEPT !.runs[r].pc = "updateOrderPaymentStatus"]
  /\ UNCHANGED <<orders, now, last, view, sessions, modal>>

(* updateOrderPaymentStatus(order.id, paymentIntent.id, 'completed') *)
ProcessOrderSettled(r) ==
  /\ page.runs[r].pc = "updateOrderPaymentStatus"
  /\ updateOrderPaymentStatus(page.runs[r].orderId, "pi_123", "completed")
  /\ page' = IF last'.result = "ok"
             THEN [page EXCEPT !.runs[r].pc = "loadOrders"]
             ELSE Thrown(page, r)
  /\ UNCHANGED <<view, sessions, modal>>

(* loadOrders, the reset of the form, and the finally *)
ProcessOrderDone(r) ==
  /\ page.runs[r].pc = "loadOrders"
  /\ page' = [page EXCEPT !.hasActiveOrder = ActiveOrderIn(getUserOrders("u1")),
                          !.includesTablet = FALSE,
                          !.pendingAddress = NoPendingAddress,
                          !.showAddressModal = FALSE,
                          !.isProcessing = FALSE,
                          !.runs[r] = NoRun]
  /\ UNCHANGED <<orders, now, last, view, sessions, modal>>

(* the customer leaves or reloads the page: its state and the calls in     *)
(* flight are gone, the rows of the table stay                              *)
LeavePage ==
  /\ page' = [NoPage EXCEPT !.purchase = page.purchase,
                            !.createdFor = page.createdFor]
  /\ UNCHANGED <<orders, now, last, view, sessions, modal>>

NextOrdering ==
  \/ LoadOrders
  \/ \E checked \in BOOLEAN : SetIncludesTablet(checked)
  \/ handlePlaceOrder
  \/ CloseAddressModal
  \/ handleAddressSubmit(addrA)
  \/ ClickPay
  \/ CancelPayment
  \/ \E r \in RunIds : ProcessOrderCreated(r)
  \/ \E r \in RunIds, ok \in BOOLEAN : ProcessOrderPaymentCreated(r, ok)
  \/ \E r \in RunIds, stripeError \in BOOLEAN : ProcessOrderCardConfirmed(r, stripeError)
  \/ \E r \in RunIds : ProcessOrderSettled(r)
  \/ \E r \in RunIds : ProcessOrderDone(r)
  \/ LeavePage

SpecOrdering == Init /\ [][NextOrdering]_vars

(* ------------------------------------------------- address form (modal) *)
UAE_EMIRATES == <<"Abu Dhabi", "Dubai", "Sharjah", "Ajman", "Umm Al Quwain",
                  "Ras Al Khaimah", "Fujairah">>

Digits == {"0", "1", "2", "3", "4", "5", "6", "7", "8", "9"}
Whitespace == {" "}

(* what a customer types: nothing, blanks, or a text with blanks around it *)
LineTexts == {NoText, <<" ", " ">>, <<" ", "V", "1", " ">>}
SecondLineTexts == {NoText, <<"F", "2">>}
CityTexts == {NoText, <<" ">>, <<"D", "u", "b", "a", "i">>}

(* contact numbers: none, blank, three accepted spellings, three rejected *)
ContactTexts ==
  { NoText,
    <<" ">>,
    <<"+", "9", "7", "1", " ", "5", "0", " ", "1", "2", "3", " ", "4", "5", "6", "7">>,
    <<"0", "5", "0", "1", "2", "3", "4", "5", "6", "7">>,
    <<"5", "0", "1", "2", "3", "4", "5", "6", "7">>,
    <<"5", "0", "1", "2", "3", "4", "5", "6">>,
    <<"+", "9", "7", "2", "5", "0", "1", "2", "3", "4", "5", "6", "7">>,
    <<"0", "5", "0", "1", "2", "3", "4", "5", "6", "x">> }

(* String.prototype.trim *)
RECURSIVE TrimStart(_)
TrimStart(text) ==
  IF text # <<>> /\ Head(text) \in Whitespace THEN TrimStart(Tail(text)) ELSE text

RECURSIVE TrimEnd(_)
TrimEnd(text) ==
  IF text # <<>> /\ text[Len(text)] \in Whitespace
  THEN TrimEnd(SubSeq(text, 1, Len(text) - 1))
  ELSE text

Trim(text) == TrimEnd(TrimStart(text))

(* text.replace(/\s/g, '') *)
RemoveWhitespace(text) == SelectSeq(text, LAMBDA c : c \notin Whitespace)

(* /^(\+971|00971|0)?[0-9]{9}$/.test(text) *)
TestPhonePattern(text) ==
  \E prefix \in {<<>>, <<"+", "9", "7", "1">>, <<"0", "0", "9", "7", "1">>, <<"0">>} :
    /\ Len(text) = Len(prefix) + 9
    /\ SubSeq(text, 1, Len(prefix)) = prefix
    /\ \A i \in (Len(prefix) + 1)..Len(text) : text[i] \in Digits

(* validateStep that asks only for some contact number at step 4 *)
validateStep_AnyContactNumber(currentStep) ==
  LET address == modal.address
  IN CASE currentStep = 1 ->
            IF Trim(address.addressLine1) = <<>> THEN {"addressLine1"} ELSE {}
       [] currentStep = 2 ->
            IF Trim(address.city) = <<>> THEN {"city"} ELSE {}
       [] currentStep = 3 ->
            IF address.emirate = "" THEN {"emirate"} ELSE {}
       [] currentStep = 4 ->
            IF Trim(address.contactNumber) = <<>> THEN {"contactNumber"} ELSE {}
       [] OTHER -> {}

(* the keys of newErrors; validateStep returns true when there is none *)
validateStep(currentStep) ==
  LET address == modal.address
  IN CASE currentStep = 1 ->
            IF Trim(address.addressLine1) = <<>> THEN {"addressLine1"} ELSE {}
       [] currentStep = 2 ->
            IF Trim(address.city) = <<>> THEN {"city"} ELSE {}
       [] currentStep = 3 ->
            IF address.emirate = "" THEN {"emirate"} ELSE {}
       [] currentStep = 4 ->
            IF Trim(address.contactNumber) = <<>>
            THEN {"contactNumber"}
            ELSE IF ~TestPhonePattern(RemoveWhitespace(address.contactNumber))
                 THEN {"contactNumber"}
                 ELSE {}
       [] OTHER -> {}

(* the Next / Confirm button and the Enter key *)
handleNext ==
  /\ modal.isOpen
  /\ LET newErrors == validateStep(modal.step)
     IN modal' =
          IF newErrors = {}
          THEN IF modal.step < 4
               THEN [modal EXCEPT !.errors = newErrors, !.step = modal.step + 1]
               ELSE [modal EXCEPT !.errors = newErrors, !.submitted = modal.address]
          ELSE [modal EXCEPT !.errors = newErrors]
  /\ UNCHANGED <<orders, now, last, view, sessions, page>>

(* the Back button, rendered from step 2 on *)
handleBack ==
  /\ modal.isOpen
  /\ modal' = IF modal.step > 1
              THEN [modal EXCEPT !.step = modal.step - 1, !.errors = {}]
              ELSE modal
  /\ UNCHANGED <<orders, now, last, view, sessions, page>>

(* the inputs of the step shown *)
EditAddressLine1(text) ==
  /\ modal.isOpen /\ modal.step = 1
  /\ modal' = [modal EXCEPT !.address.addressLine1 = text]
  /\ UNCHANGED <<orders, now, last, view, sessions, page>>

EditAddressLine2(text) ==
  /\ modal.isOpen /\ modal.step = 1
  /\ modal' = [modal EXCEPT !.address.addressLine2 = text]
  /\ UNCHANGED <<orders, now, last, view, sessions, page>>

EditCity(text) ==
  /\ modal.isOpen /\ modal.step = 2
  /\ modal' = [modal EXCEPT !.address.city = text]
  /\ UNCHANGED <<orders, now, last, view, sessions, page>>

SelectEmirate(i) ==
  /\ modal.isOpen /\ modal.step = 3
  /\ modal' = [modal EXCEPT !.address.emirate = UAE_EMIRATES[i]]
  /\ UNCHANGED <<orders, now, last, view, sessions, page>>

EditContactNumber(text) ==
  /\ modal.isOpen /\ modal.step = 4
  /\ modal' = [modal EXCEPT !.address.contactNumber = text]
  /\ UNCHANGED <<orders, now, last, view, sessions, page>>

(* the page shows and hides the form; hidden, it keeps its state *)
OpenModal ==
  /\ ~modal.isOpen
  /\ modal' = [modal EXCEPT !.isOpen = TRUE]
  /\ UNCHANGED <<orders, now, last, view, sessions, page>>

CloseModal ==
  /\ modal.isOpen
  /\ modal' = [modal EXCEPT !.isOpen = FALSE]
  /\ UNCHANGED <<orders, now, last, view, sessions, page>>

NextModal ==
  \/ handleNext
  \/ handleBack
  \/ \E text \in LineTexts : EditAddressLine1(text)
  \/ \E text \in SecondLineTexts : EditAddressLine2(text)
  \/ \E text \in CityTexts : EditCity(text)
  \/ \E i \in 1..Len(UAE_EMIRATES) : SelectEmirate(i)
  \/ \E text \in ContactTexts : EditContactNumber(text)
  \/ OpenModal
  \/ CloseModal

SpecModal == Init /\ [][NextModal]_vars

TypeOK ==
  /\ now \in Time
  /\ Len(orders) <= MaxOrders
  /\ \A id \in OrderIds :
       /\ orders[id].order_status \in OrderStatus
       /\ orders[id].payment_status \in PaymentStatus

(* ------------------------------------------------------------ properties *)
(* a step that is the call of operation op, described by last' *)
IsCall(op) == now' = now /\ last'.op = op

(* a call on a row that exists and that the store did not reject *)
Applied(op) == IsCall(op) /\ last'.result = "ok" /\ Exists(last'.id)

Terminal(paymentStatus) == paymentStatus \in {"completed", "failed"}

(* C1: the fulfillment stage index of every order never decreases from one  *)
(* state to the next.                                                       *)
C1_StageNeverDecreases ==
  [][\A id \in OrderIds :
       getStatusIndex(orders'[id].order_status) >= getStatusIndex(orders[id].order_status)]_vars

(* C2: updateOrderStatus with a target that skips a stage or regresses      *)
(* fails with InvalidTransition and leaves the stored order unchanged.      *)
C2_InvalidTransitionRejected ==
  [][(/\ IsCall("updateOrderStatus")
      /\ last'.result # "error"
      /\ Exists(last'.id)
      /\ LET cur == getStatusIndex(orders[last'.id].order_status)
             tgt == getStatusIndex(last'.arg)
         IN tgt > cur + 1 \/ tgt < cur)
     => (last'.result = "InvalidTransition" /\ orders' = orders)]_vars

(* C3: a payment state that is completed or failed never changes again, and *)
(* updateOrderPaymentStatus on such an order fails with AlreadySettled and  *)
(* leaves the order unchanged.                                              *)
C3_SettledPaymentIsFinal ==
  [][/\ \A id \in OrderIds :
          Terminal(orders[id].payment_status)
          => /\ orders'[id].payment_status = orders[id].payment_status
             /\ orders'[id].stripe_payment_intent_id = orders[id].stripe_payment_intent_id
     /\ (/\ IsCall("updateOrderPaymentStatus")
         /\ last'.result # "error"
         /\ Exists(last'.id)
         /\ Terminal(orders[last'.id].payment_status))
        => (last'.result = "AlreadySettled" /\ orders' = orders)]_vars

(* C4: delivered_at is set if and only if the fulfillment stage is          *)
(* delivered.                                                               *)
C4_DeliveredAtIffDelivered ==
  \A id \in OrderIds :
    (orders[id].delivered_at # NoTime) <=> (orders[id].order_status = "delivered")

(* C5: once delivered_at is set, no later operation changes or clears it.   *)
C5_DeliveredAtSetOnce ==
  [][\A id \in OrderIds :
       orders[id].delivered_at # NoTime
       => orders'[id].delivered_at = orders[id].delivered_at]_vars

(* C6: updateOrderStatus with the order's current stage as target succeeds  *)
(* and leaves the order exactly as it was, whatever the stage.              *)
C6_SameStageIsNoOp ==
  [][(/\ IsCall("updateOrderStatus")
      /\ last'.result # "error"
      /\ Exists(last'.id)
      /\ last'.arg = orders[last'.id].order_status)
     => (last'.result = "ok" /\ orders' = orders)]_vars

(* C7: after an advance of an order into the next stage s, its              *)
(* status_timestamps has an entry under s, holding the instant of the       *)
(* transition when the stage had no entry before.                           *)
C7_AdvanceRecordsTimestamp ==
  [][(/\ Applied("updateOrderStatus")
      /\ getStatusIndex(last'.arg) = getStatusIndex(orders[last'.id].order_status) + 1)
     => LET before == StatusTimestamps(orders[last'.id])[last'.arg]
            after == StatusTimestamps(orders'[last'.id])[last'.arg]
        IN /\ after # NoTime
           /\ before = NoTime => after = now]_vars

(* C8: an entry of status_timestamps, once present, is never changed or     *)
(* removed by a later operation.                                            *)
C8_AuditTrailAppendOnly ==
  [][\A id \in OrderIds, s \in OrderStatus :
       StatusTimestamps(orders[id])[s] # NoTime
       => StatusTimestamps(orders'[id])[s] = StatusTimestamps(orders[id])[s]]_vars

(* an order whose received entry dates from an earlier instant and that has *)
(* since been settled again, advanced and given a proof                     *)
C8_Witness ==
  \E id \in OrderIds :
    /\ StatusTimestamps(orders[id])["received"] = orders[id].created_at
    /\ orders[id].created_at < now
    /\ orders[id].stripe_payment_intent_id # NoRef
    /\ orders[id].order_status = "delivered"
    /\ orders[id].delivered_at = now
    /\ orders[id].proof_of_delivery_url # NoRef

(* C9: after a successful updateOrderPaymentStatus with outcome completed,  *)
(* a pending order is received and has a received entry; an order already   *)
(* received or later keeps its fulfillment stage.                           *)
C9_SettlementEnsuresReceived ==
  [][(Applied("updateOrderPaymentStatus") /\ last'.arg = "completed")
     => LET o == orders[last'.id]
            p == orders'[last'.id]
        IN IF o.order_status = "pending"
           THEN p.order_status = "received" /\ StatusTimestamps(p)["received"] # NoTime
           ELSE p.order_status = o.order_status]_vars

(* C10: an order whose fulfillment stage is received or later has payment   *)
(* state completed.                                                         *)
C10_FulfillmentRequiresPayment ==
  \A id \in OrderIds :
    orders[id].order_status # "pending" => orders[id].payment_status = "completed"
(* a step that is a createOrder call that inserted a row, and the row *)
Created == IsCall("createOrder") /\ last'.result = "ok"
CreatedOrder == orders'[last'.id]

(* C11: an order that includes the device is created pending/pending, one   *)
(* without it received/completed, and a device order leaves pending only by *)
(* a successful settlement.                                                 *)
C11_CreatedPendingWhenPaymentOutstanding ==
  [][/\ Created
        => IF CreatedOrder.includes_tablet
           THEN /\ CreatedOrder.order_status = "pending"
                /\ CreatedOrder.payment_status = "pending"
           ELSE /\ CreatedOrder.order_status = "received"
                /\ CreatedOrder.payment_status = "completed"
     /\ \A id \in OrderIds :
          (/\ orders[id].includes_tablet
           /\ orders[id].order_status = "pending"
           /\ orders'[id].order_status # "pending")
          => (/\ Applied("updateOrderPaymentStatus")
              /\ last'.id = id
              /\ last'.arg = "completed")]_vars

(* C13: createOrder without the device yields total cost 0, device cost 0,  *)
(* stage received, payment completed, a received entry and an estimated     *)
(* delivery of created_at + 9 h; with the device the total cost is 499; in  *)
(* both cases the total cost is calculateTotalCost(includesTablet).         *)
C13_CreatedOrderContents ==
  [][Created
     => /\ CreatedOrder.total_cost = calculateTotalCost(CreatedOrder.includes_tablet)
        /\ CreatedOrder.includes_tablet => CreatedOrder.total_cost = 0 + 499
        /\ ~CreatedOrder.includes_tablet
           => /\ CreatedOrder.total_cost = 0
              /\ CreatedOrder.tablet_cost = 0
              /\ CreatedOrder.order_status = "received"
              /\ CreatedOrder.payment_status = "completed"
              /\ StatusTimestamps(CreatedOrder)["received"] # NoTime
              /\ CreatedOrder.estimated_delivery = CreatedOrder.created_at + 9 * MsPerHour]_vars

(* C14: updateProofOfDelivery on an order that is not delivered fails with  *)
(* InvalidState and leaves the order unchanged, so every order that carries *)
(* a proof reference is in stage delivered.                                 *)
C14_ProofOnlyWhenDelivered ==
  [][/\ (/\ IsCall("updateProofOfDelivery")
         /\ last'.result # "error"
         /\ Exists(last'.id)
         /\ orders[last'.id].order_status # "delivered")
        => (last'.result = "InvalidState" /\ orders' = orders)
     /\ \A id \in 1..Len(orders') :
          orders'[id].proof_of_delivery_url # NoRef
          => orders'[id].order_status = "delivered"]_vars

(* C18: every order in stage received or later has a stored estimated       *)
(* delivery equal to created_at + 9 h, and a stored estimated delivery is   *)
(* never changed by a later operation.                                      *)
C18_EstimatedDeliveryStoredOnce ==
  [][/\ \A id \in 1..Len(orders') :
          getStatusIndex(orders'[id].order_status) >= 1
          => orders'[id].estimated_delivery = orders'[id].created_at + 9 * MsPerHour
     /\ \A id \in OrderIds :
          orders[id].estimated_delivery # NoTime
          => orders'[id].estimated_delivery = orders[id].estimated_delivery]_vars

(* C23: a successful updateProofOfDelivery on a delivered order stores the  *)
(* given proof reference, over one already stored, and changes no other     *)
(* column: stage, payment state, settlement reference, delivered_at and     *)
(* status_timestamps stay as they were.                                     *)
C23_ProofUpdateFrame ==
  [][(Applied("updateProofOfDelivery") /\ orders[last'.id].order_status = "delivered")
     => /\ orders'[last'.id].proof_of_delivery_url = last'.arg
        /\ orders' = [orders EXCEPT ![last'.id].proof_of_delivery_url = last'.arg]]_vars

(* a delivered, settled order whose last call stored the second proof *)
C23_Witness ==
  /\ last.op = "updateProofOfDelivery"
  /\ last.result = "ok"
  /\ last.arg = "proof2"
  /\ Exists(last.id)
  /\ orders[last.id].order_status = "delivered"
  /\ orders[last.id].delivered_at # NoTime
  /\ orders[last.id].delivered_at < now
  /\ orders[last.id].stripe_payment_intent_id # NoRef
  /\ orders[last.id].proof_of_delivery_url = "proof2"

(* C24: total_cost, tablet_cost and includes_tablet of an order are left    *)
(* unchanged by every operation, and total_cost is 499 with the device and  *)
(* 0 without it.                                                            *)
C24_CostFixedAtCreation ==
  [][/\ \A id \in OrderIds :
          /\ orders'[id].total_cost = orders[id].total_cost
          /\ orders'[id].tablet_cost = orders[id].tablet_cost
          /\ orders'[id].includes_tablet = orders[id].includes_tablet
     /\ \A id \in 1..Len(orders') :
          orders'[id].total_cost = IF orders'[id].includes_tablet THEN 499 ELSE 0]_vars

(* a device order that was settled, delivered and given a proof *)
C24_Witness ==
  \E id \in OrderIds :
    /\ orders[id].includes_tablet
    /\ orders[id].total_cost = 499
    /\ orders[id].stripe_payment_intent_id # NoRef
    /\ orders[id].order_status = "delivered"
    /\ orders[id].proof_of_delivery_url # NoRef

(* the delivery address columns of a row, as a DeliveryAddress *)
DeliveryAddressOf(o) ==
  [addressLine1 |-> o.delivery_address_line1,
   addressLine2 |-> o.delivery_address_line2,
   city |-> o.delivery_city,
   emirate |-> o.delivery_emirate,
   contactNumber |-> o.delivery_contact_number]

(* C25: the delivery address of a created order is the address passed to    *)
(* createOrder, and no later operation changes it.                          *)
C25_DeliveryAddressImmutable ==
  [][/\ Created => DeliveryAddressOf(CreatedOrder) = last'.arg
     /\ \A id \in OrderIds :
          DeliveryAddressOf(orders'[id]) = DeliveryAddressOf(orders[id])]_vars

(* an order created with the second address, since settled as failed,       *)
(* delivered and given a proof                                              *)
C25_Witness ==
  \E id \in OrderIds :
    /\ DeliveryAddressOf(orders[id]) = addrB
    /\ orders[id].payment_status = "failed"
    /\ orders[id].order_status = "delivered"
    /\ orders[id].proof_of_delivery_url # NoRef
(* a step that is the reading call op, described by view' *)
IsRead(op) == view'.op = op /\ UNCHANGED <<orders, now, last, sessions, page, modal>>

Range(seq) == {seq[i] : i \in 1..Len(seq)}

(* C12: getUserOrders(c) returns exactly the orders owned by c whose        *)
(* payment state is completed, each once.                                   *)
C12_ListingIsOwnCompletedOrders ==
  [][IsRead("getUserOrders")
     => /\ Range(view'.result) =
             {id \in OrderIds : /\ orders[id].user_id = view'.args[1]
                                /\ orders[id].payment_status = "completed"}
        /\ Len(view'.result) = Cardinality(Range(view'.result))]_vars

(* a listing of one order, read while the same customer also owns an order  *)
(* whose payment failed                                                     *)
C12_Witness ==
  /\ view.op = "getUserOrders"
  /\ Len(view.result) = 1
  /\ Len(orders) = 2
  /\ \A id \in OrderIds : orders[id].user_id = view.args[1]
  /\ orders[view.result[1]].payment_status = "completed"
  /\ \E id \in OrderIds : orders[id].payment_status = "failed"
(* C17: calculateEstimatedDelivery(createdAt) is createdAt plus exactly     *)
(* 9 hours.                                                                 *)
C17_EstimateIsCreatedPlusNineHours ==
  [][IsRead("calculateEstimatedDelivery")
     => view'.result = view'.args[1] + 9 * MsPerHour]_vars

(* the estimate of an order created one millisecond before a full hour *)
C17_Witness ==
  /\ view.op = "calculateEstimatedDelivery"
  /\ view.args[1] = 2 * MsPerHour - 1
  /\ view.result = 11 * MsPerHour - 1

(* C19: isDelayed is false for every now and every estimate when the stage  *)
(* is out_for_delivery or delivered.                                        *)
C19_NeverDelayedOnceOutForDelivery ==
  [][(IsRead("isDelayed") /\ view'.args[2] \in {"out_for_delivery", "delivered"})
     => view'.result = FALSE]_vars

(* an out_for_delivery order read as not delayed after its estimate passed *)
C19_Witness ==
  /\ view.op = "isDelayed"
  /\ view.args[2] = "out_for_delivery"
  /\ view.args[3] = 0
  /\ now = MsPerHour
  /\ view.result = FALSE

(* C20: for the stages pending, received, preparing and configuring,        *)
(* isDelayed is true exactly when now is strictly later than the estimate.  *)
C20_DelayedIffNowAfterEstimate ==
  [][(/\ IsRead("isDelayed")
      /\ view'.args[2] \in {"pending", "received", "preparing", "configuring"})
     => (view'.result <=> now > view'.args[3])]_vars

(* a preparing order read as delayed one millisecond after its estimate *)
C20_Witness ==
  /\ view.op = "isDelayed"
  /\ view.args[2] = "preparing"
  /\ view.args[3] = MsPerHour
  /\ now = MsPerHour + 1
  /\ view.result = TRUE

(* C21: getDelayMessage picks its text from h = floor((now - estimate) / 1  *)
(* hour): h < 1 the mild apology, h = 1 the apology with "1 hour", h = 2    *)
(* the apology with "2 hours", h >= 3 the contact-support text; the texts   *)
(* of the three tiers differ, so exactly one tier applies.                  *)
C21_DelayMessageTiers ==
  [][IsRead("getDelayMessage")
     => LET h == (now - view'.args[1]) \div MsPerHour
        IN /\ h < 1 => view'.result = SlightDelayMessage
           /\ h = 1 => view'.result =
                "Your order is delayed by approximately 1 hour. Our team is working to get it to you as soon as possible."
           /\ h = 2 => view'.result =
                "Your order is delayed by approximately 2 hours. Our team is working to get it to you as soon as possible."
           /\ h >= 3 => view'.result = SupportDelayMessage
           /\ Cardinality({SlightDelayMessage, HoursDelayMessage(1),
                           HoursDelayMessage(2), SupportDelayMessage}) = 4]_vars

(* the message read one millisecond before the delay reaches three hours *)
C21_Witness ==
  /\ view.op = "getDelayMessage"
  /\ now - view.args[1] = 3 * MsPerHour - 1
  /\ view.result = HoursDelayMessage(2)

(* C22: two calls of isDelayed, or of getDelayMessage, with the same        *)
(* arguments return the same result, whatever the clock at each call.       *)
C22_DelayFunctionsDeterministic ==
  [][\A op \in {"isDelayed", "getDelayMessage"} :
       (IsRead(op) /\ view.op = op /\ view'.args = view.args)
       => view'.result = view.result]_vars

(* C27: getStatusIndex maps pending, received, preparing, configuring,      *)
(* out_for_delivery and delivered to 0, 1, 2, 3, 4 and 5; distinct stages   *)
(* get distinct ordinals, increasing along the pipeline.                    *)
C27_StageOrdinals ==
  [][IsRead("getStatusIndex")
     => LET ordinal == [pending |-> 0, received |-> 1, preparing |-> 2,
                        configuring |-> 3, out_for_delivery |-> 4, delivered |-> 5]
            pipeline == <<"pending", "received", "preparing", "configuring",
                          "out_for_delivery", "delivered">>
        IN /\ view'.args[1] \in DOMAIN ordinal
              => view'.result = ordinal[view'.args[1]]
           /\ \A i, j \in 1..6 :
                i < j => getStatusIndex(pipeline[i]) < getStatusIndex(pipeline[j])]_vars

(* the ordinal read for the last stage *)
C27_Witness ==
  /\ view.op = "getStatusIndex"
  /\ view.args[1] = "delivered"
  /\ view.result = 5

(* C26: an order loaded back from the store has, under every stage name,    *)
(* the timestamp that was saved under it, and the delivered_at and the      *)
(* settlement reference that were saved.                                    *)
C26_SaveLoadRoundTrip ==
  [][IsRead("getOrderById")
     => LET saved == orders[view'.args[1]]
            loaded == view'.result
        IN /\ \A s \in OrderStatus :
                GetProperty(loaded.status_timestamps, s) = StatusTimestamps(saved)[s]
           /\ loaded.delivered_at = saved.delivered_at
           /\ loaded.stripe_payment_intent_id = saved.stripe_payment_intent_id]_vars

(* the ordering flow of row id is over: no processOrder in flight holds it *)
FlowOver(id) == \A r \in RunIds : page.runs[r].orderId # id

(* C28: a device order whose ordering flow ended, by a gateway failure or   *)
(* by the customer leaving, with no settlement recorded is not payment      *)
(* completed, is not in the customer's listing and is in stage pending.     *)
C28_UnpaidDeviceOrderStaysOut ==
  \A id \in OrderIds :
    (/\ orders[id].includes_tablet
     /\ orders[id].stripe_payment_intent_id = NoRef
     /\ FlowOver(id))
    => /\ orders[id].payment_status # "completed"
       /\ id \notin Range(getUserOrders(orders[id].user_id))
       /\ getStatusIndex(orders[id].order_status) < 1

(* C29: no two rows were inserted for the same purchase.                    *)
C29_OneOrderPerPurchase ==
  \A i, j \in OrderIds :
    i # j => page.createdFor[i] # page.createdFor[j]

(* a text with a character that is not a blank *)
NonBlank(text) == \E i \in 1..Len(text) : text[i] # " "

(* a step in which the address form handed an address to onSubmit *)
OnSubmit == modal'.submitted # modal.submitted

(* C30: the step of the address form stays within 1..4, and onSubmit is     *)
(* invoked only from step 4, with an address whose line 1 and city are not  *)
(* blank, whose emirate is selected and whose contact number, blanks        *)
(* removed, is 9 digits after an optional +971, 00971 or 0.                 *)
C30_ModalStepsAndSubmit ==
  [][/\ modal'.step \in 1..4
     /\ OnSubmit
        => LET a == modal'.submitted
               number == SelectSeq(a.contactNumber, LAMBDA c : c # " ")
           IN /\ modal.step = 4
              /\ NonBlank(a.addressLine1)
              /\ NonBlank(a.city)
              /\ \E i \in 1..7 : UAE_EMIRATES[i] = a.emirate
              /\ Len(number) \in {9, 10, 13, 14}
              /\ \A i \in (Len(number) - 8)..Len(number) : number[i] \in Digits
              /\ Len(number) = 10 => number[1] = "0"
              /\ Len(number) = 13 => SubSeq(number, 1, 4) = <<"+", "9", "7", "1">>
              /\ Len(number) = 14 => SubSeq(number, 1, 5) = <<"0", "0", "9", "7", "1">>]_vars

(* an address submitted from step 4 with a second line and a contact number *)
(* typed with blanks                                                        *)
C30_Witness ==
  /\ modal.step = 4
  /\ modal.submitted = modal.address
  /\ modal.submitted.addressLine2 # NoText
  /\ Len(modal.submitted.contactNumber) = 16
(* a step in which session s clicked a stage button and the store took the  *)
(* update; last' holds the order and the stage requested                    *)
Clicked(s) == ~sessions[s].updating /\ sessions'[s].updating

AdjacentOrSame(from, to) ==
  getStatusIndex(to) \in {getStatusIndex(from), getStatusIndex(from) + 1}

(* C15: a write made from a snapshot that no longer matches the stored      *)
(* order is rejected as StaleRead and not applied, so no click on the       *)
(* current or next stage of a session's snapshot makes the stored stage     *)
(* decrease or skip a stage.                                                *)
C15_StaleWriteRejected ==
  [][\A s \in Sessions :
       (/\ Clicked(s)
        /\ AdjacentOrSame(sessions[s].selectedOrder.order_status, last'.arg))
       => /\ sessions[s].selectedOrder.order_status # orders[last'.id].order_status
             => (last'.result = "StaleRead" /\ orders' = orders)
          /\ AdjacentOrSame(orders[last'.id].order_status,
                            orders'[last'.id].order_status)]_vars

(* C16: the only stage buttons that trigger an update are those of the      *)
(* selected order's current stage and of the stage right after it.          *)
C16_OnlyCurrentAndNextSelectable ==
  [][\A s \in Sessions :
       Clicked(s)
       => AdjacentOrSame(sessions[s].selectedOrder.order_status, last'.arg)]_vars
====
